---------------------------- MODULE Spec2Model ----------------------------
(***************************************************************************)
(* A model of S2CellUnion (src/src/S2CellUnion.ts): the ordered sequence   *)
(* of cell ids an S2CellUnion owns, and the operations normalize,          *)
(* contains, intersects, getUnion, getIntersectionUU, denormalize and      *)
(* expand, each translated from its code.                                  *)
(*                                                                         *)
(* Cell ids are unsigned integers with the layout of S2CellId: FACE_BITS   *)
(* face bits, then two bits per level, then the marker bit that encodes    *)
(* the level.  The real S2CellId has MAX_LEVEL = 30 (a 64 bit id); the     *)
(* model keeps the layout and scales MAX_LEVEL to 6 (a 16 bit id), which   *)
(* is, like 30, a multiple of 1, 2 and 3 (denormalize relies on that).     *)
(* All arithmetic on ids is done modulo 2^WIDTH.                           *)
(***************************************************************************)
EXTENDS Integers, Sequences, FiniteSets, TLC

MAX_LEVEL == 6
FACE_BITS == 3
NUM_FACES == 6

\* Bounds of the model (not program constants).
MaxLen == 4        \* longest raw input sequence given to normalize
MaxUnion == 3      \* largest union used as the receiver of a query
MaxOperand == 3    \* largest operand of getIntersectionUU
MaxUnionOperand == 2  \* largest operand of getUnion
MaxDenorm == 2     \* largest union given to denormalize
MaxDescend == 2    \* most levels denormalize descends below a stored cell

---------------------------------------------------------------------------
(* 64 bit (here WIDTH bit) integer arithmetic of the `long' package.       *)

RECURSIVE Pow2(_)
Pow2(n) == IF n = 0 THEN 1 ELSE 2 * Pow2(n - 1)

POS_BITS == 2 * MAX_LEVEL + 1
WIDTH == FACE_BITS + POS_BITS
Modulus == Pow2(WIDTH)

RECURSIVE and(_, _)
\* Long.and: bitwise AND.
and(a, b) ==
    IF a = 0 \/ b = 0 THEN 0
    ELSE 2 * and(a \div 2, b \div 2) + (IF a % 2 = 1 /\ b % 2 = 1 THEN 1 ELSE 0)

\* Long.not: bitwise complement.
not(a) == Modulus - 1 - a

\* Long.shiftLeft: bits shifted out of the word are lost.
shiftLeft(a, n) == (a * Pow2(n)) % Modulus

\* Long.add: wraps around.
add(a, b) == (a + b) % Modulus

---------------------------------------------------------------------------
(* S2CellId: the operations S2CellUnion consumes.                          *)

RECURSIVE lowestOnBit(_)
\* S2CellId.lowestOnBit: id & -id.
lowestOnBit(id) ==
    IF id = 0 THEN 0
    ELSE IF id % 2 = 1 THEN 1 ELSE 2 * lowestOnBit(id \div 2)

\* S2CellId.lowestOnBitForLevel: 1 << (2 * (MAX_LEVEL - level)).
lowestOnBitForLevel(lvl) == Pow2(2 * (MAX_LEVEL - lvl))

\* S2CellId.face: the top FACE_BITS bits.
face(id) == id \div Pow2(POS_BITS)

\* S2CellId.isValid: a face below NUM_FACES and the marker bit at an even
\* position.
isValid(id) ==
    /\ id \in 1..(Modulus - 1)
    /\ face(id) < NUM_FACES
    /\ \E l \in 0..MAX_LEVEL : lowestOnBit(id) = lowestOnBitForLevel(l)

\* S2CellId.level.
level(id) == CHOOSE l \in 0..MAX_LEVEL : lowestOnBit(id) = lowestOnBitForLevel(l)

\* S2CellId.isLeaf / isFace.
isLeaf(id) == id % 2 = 1
isFace(id) == and(id, lowestOnBitForLevel(0) - 1) = 0

\* S2CellId.rangeMin / rangeMax: the first and last leaf of the cell.
rangeMin(id) == id - (lowestOnBit(id) - 1)
rangeMax(id) == id + (lowestOnBit(id) - 1)

\* S2CellId.contains.
idContains(a, b) == rangeMin(b) >= rangeMin(a) /\ rangeMax(b) <= rangeMax(a)

\* S2CellId.intersects.
idIntersects(a, b) == rangeMin(b) <= rangeMax(a) /\ rangeMax(b) >= rangeMin(a)

\* S2CellId.parent(): (id & -newLsb) | newLsb with newLsb = lsb << 2.
parent(id) ==
    LET newLsb == shiftLeft(lowestOnBit(id), 2)
    IN  (id \div (2 * newLsb)) * (2 * newLsb) + newLsb

\* S2CellId.parentL(level).
parentL(id, lvl) ==
    LET newLsb == lowestOnBitForLevel(lvl)
    IN  (id \div (2 * newLsb)) * (2 * newLsb) + newLsb

\* S2CellId.childBeginL / childEndL / next.
childBeginL(id, lvl) == id - lowestOnBit(id) + lowestOnBitForLevel(lvl)
childEndL(id, lvl) == id + lowestOnBit(id) + lowestOnBitForLevel(lvl)
next(id) == add(id, shiftLeft(lowestOnBit(id), 1))

\* The k-th child (k in 0..3) of a cell that is not a leaf.
child(id, k) ==
    LET newLsb == lowestOnBit(id) \div 4
    IN  id - lowestOnBit(id) + (2 * k + 1) * newLsb

children(id) == { child(id, k) : k \in 0..3 }

\* S2CellId.fromFacePosLevel(face, 0, 0): the face cell.
faceCell(f) == f * Pow2(POS_BITS) + lowestOnBitForLevel(0)

\* Element i (counted from 0, as in the code) of an array.
At(l, i) == l[i + 1]

RECURSIVE indexedBinarySearch(_, _, _, _)
\* S2CellId.indexedBinarySearch(l, key, low): the index of key in the sorted
\* array l, searched from index low, or the insertion point.
indexedBinarySearch(l, key, low, high) ==
    IF low > high THEN low
    ELSE LET mid == (low + high) \div 2
         IN  IF At(l, mid) < key THEN indexedBinarySearch(l, key, mid + 1, high)
             ELSE IF At(l, mid) > key THEN indexedBinarySearch(l, key, low, mid - 1)
             ELSE mid

RECURSIVE binarySearchLoop(_, _, _, _)
binarySearchLoop(l, key, low, high) ==
    IF low > high THEN -(low + 1)
    ELSE LET mid == (low + high) \div 2
         IN  IF At(l, mid) < key THEN binarySearchLoop(l, key, mid + 1, high)
             ELSE IF At(l, mid) > key THEN binarySearchLoop(l, key, low, mid - 1)
             ELSE mid

\* S2CellId.binarySearch(l, key): the index of key, or -(insertion point) - 1.
binarySearch(l, key) == binarySearchLoop(l, key, 0, Len(l) - 1)

---------------------------------------------------------------------------
(* The cells the inputs are drawn from: the face cells of UniverseFaces,   *)
(* and on face SpineFace, along one path from the face down to a leaf, the *)
(* four children of the path's cells at the levels SpineLevels: four       *)
(* leaves, their parent and its three siblings.                            *)

SpinePath == [face |-> 1, digits |-> <<2, 1, 0, 3, 1, 2>>]
UniverseFaces == 0..3
SpineLevels == { MAX_LEVEL - 2, MAX_LEVEL - 1 }

RECURSIVE SpineCell(_)
SpineCell(k) ==
    IF k = 0 THEN faceCell(SpinePath.face)
    ELSE child(SpineCell(k - 1), SpinePath.digits[k])

Universe ==
    { faceCell(f) : f \in UniverseFaces }
      \cup UNION { children(SpineCell(k)) : k \in SpineLevels }

\* The leaves probed by the claims about leaf ids: the first and the last
\* leaf of every cell of the universe and of its siblings' cells.
ProbeLeaves ==
    UNION { {rangeMin(c), rangeMax(c)} :
            c \in Universe \cup UNION { children(parent(u)) : u \in { v \in Universe : ~isFace(v) } } }

\* The ids given to contains and intersects: cells of every level.
ProbeIds ==
    Universe \cup ProbeLeaves \cup { SpineCell(k) : k \in 0..(MAX_LEVEL - 1) }
             \cup { faceCell(f) : f \in 0..(NUM_FACES - 1) }

RECURSIVE SeqsUpTo(_, _)
\* The sequences over S of length at most n.
SeqsUpTo(S, n) ==
    IF n = 0 THEN { <<>> }
    ELSE LET shorter == SeqsUpTo(S, n - 1)
         IN  shorter \cup { Append(s, c) : s \in { t \in shorter : Len(t) = n - 1 }, c \in S }

Range(s) == { s[i] : i \in 1..Len(s) }

\* Sorted strictly ascending by id.
IsSorted(s) == \A i \in 1..(Len(s) - 1) : s[i] < s[i + 1]

\* No stored cell is contained by another stored cell.
NoContainment(s) ==
    \A i, j \in 1..Len(s) : i # j => ~idContains(s[i], s[j])

\* No four stored cells are the four children of one parent.
NoSiblingGroup(s) ==
    \A c \in Range(s) : isFace(c) \/ ~(children(parent(c)) \subseteq Range(s))

\* The three invariants of a normalized union.
IsNormalized(s) == IsSorted(s) /\ NoContainment(s) /\ NoSiblingGroup(s)

RECURSIVE SortedAntichains(_)
\* The sorted sequences over Universe, of length at most n, in which no
\* cell contains another.
SortedAntichains(n) ==
    IF n = 0 THEN { <<>> }
    ELSE LET shorter == SortedAntichains(n - 1)
         IN  shorter \cup
             UNION { { Append(s, c) :
                         c \in { d \in Universe :
                                   \A i \in 1..(n - 1) :
                                       s[i] < d /\ ~idContains(s[i], d)
                                                /\ ~idContains(d, s[i]) } } :
                     s \in { t \in shorter : Len(t) = n - 1 } }

---------------------------------------------------------------------------
(* S2CellUnion.                                                            *)

VARIABLES
    cellIds,   \* the cellIds array of each S2CellUnion object
    op,        \* the last method called
    arg,       \* its arguments
    ret,       \* the boolean it returned
    out,       \* the array it returned (denormalize) or built (expand)
    threw,     \* whether it threw
    pre        \* cellIds as it was before the call

vars == <<cellIds, op, arg, ret, out, threw, pre>>

Objects == { "x", "y", "e", "r", "s", "t" }

RECURSIVE insertSorted(_, _)
insertSorted(s, c) ==
    IF s = <<>> THEN <<c>>
    ELSE IF c < Head(s) THEN <<c>> \o s
    ELSE <<Head(s)>> \o insertSorted(Tail(s), c)

RECURSIVE sort(_)
\* this.cellIds.sort((a, b) => a.compareTo(b)).
sort(s) == IF s = <<>> THEN <<>> ELSE insertSorted(sort(Tail(s)), Head(s))

Last(s) == s[Len(s)]
Front(s) == SubSeq(s, 1, Len(s) - 1)

\* A normalize that keeps the earlier cells a later cell contains.
discardNothing(output, id) == output

RECURSIVE discardContained(_, _)
\* normalize: discard any previous cells contained by this cell.
discardContained(output, id) ==
    IF output # <<>> /\ idContains(id, Last(output))
    THEN discardContained(Front(output), id)
    ELSE output

\* normalize: the fast test made before the exact one.  The comment in the
\* code describes the XOR of the four cells being zero; the code compares the
\* AND of output's last three cells with id.
quickSiblingTest(a, b, c, id) == and(and(a, b), c) = id

RECURSIVE collapse(_, _)
\* normalize: while the last three cells of output and id pass both tests,
\* replace the four by their parent; then push id.
collapse(output, id) ==
    LET size == Len(output)
    IN  IF size < 3 THEN Append(output, id)
        ELSE IF ~quickSiblingTest(output[size - 2], output[size - 1], output[size], id)
        THEN Append(output, id)
        ELSE LET lsb1 == shiftLeft(lowestOnBit(id), 1)
                 mask == not(add(lsb1, shiftLeft(lsb1, 1)))
                 idMasked == and(id, mask)
             IN  IF \/ and(output[size - 2], mask) # idMasked
                    \/ and(output[size - 1], mask) # idMasked
                    \/ and(output[size], mask) # idMasked
                    \/ isFace(id)
                 THEN Append(output, id)
                 ELSE collapse(SubSeq(output, 1, size - 3), parent(id))

\* normalize: the body of the forEach, for one id.
normalizeStep(output, id) ==
    IF output # <<>> /\ idContains(Last(output), id) THEN output
    ELSE collapse(discardContained(output, id), id)

RECURSIVE normalizeLoop(_, _)
normalizeLoop(output, ids) ==
    IF ids = <<>> THEN output
    ELSE normalizeLoop(normalizeStep(output, Head(ids)), Tail(ids))

\* normalize: the output array built from the sorted cellIds.
normalizeOutput(ids) == normalizeLoop(<<>>, sort(ids))

\* A normalize that also reports a reduction when nothing was removed.
reducedOrEqual(output, ids) == Len(output) <= Len(ids)

\* normalize: whether the output replaces cellIds, which is also the value
\* returned.
normalizeReduced(output, ids) == Len(output) < Len(ids)

\* normalize: cellIds after the call (sorted in place; replaced by the output
\* when that is shorter).
normalizeCells(ids) ==
    LET output == normalizeOutput(ids)
    IN  IF normalizeReduced(output, ids) THEN output ELSE sort(ids)

\* normalize: the value returned.
normalizeReturn(ids) == normalizeReduced(normalizeOutput(ids), ids)

Fresh == [o \in Objects |-> <<>>]

\* S2CellUnion.normalize on object o.
Normalize(o) ==
    /\ cellIds' = [cellIds EXCEPT ![o] = normalizeCells(cellIds[o])]
    /\ ret' = normalizeReturn(cellIds[o])
    /\ op' = "normalize"
    /\ pre' = cellIds
    /\ UNCHANGED <<arg, out, threw>>

\* A union r given a raw array by initRawCellIds.
InitNormalize ==
    /\ cellIds \in { [Fresh EXCEPT !["r"] = s] : s \in SeqsUpTo(Universe, MaxLen) }
    /\ op = "initRawCellIds"
    /\ arg = <<>>
    /\ ret = FALSE
    /\ out = <<>>
    /\ threw = FALSE
    /\ pre = cellIds

\* r.normalize(), once the raw array is in place.
NextNormalize == op = "initRawCellIds" /\ Normalize("r")

SpecNormalize == InitNormalize /\ [][NextNormalize]_vars

\* contains: the insertion point of id in cellIds.
insertionPoint(ids, id) ==
    LET pos == binarySearch(ids, id)
    IN  IF pos < 0 THEN -pos - 1 ELSE pos

\* contains: the test of the cell at pos.
containsAtPos(ids, pos, id) ==
    pos < Len(ids) /\ rangeMin(At(ids, pos)) <= id

\* A contains that looks only at the cell at pos.
containsNotBefore(ids, pos, id) == FALSE

\* contains: the test of the cell at pos - 1.
containsBeforePos(ids, pos, id) ==
    pos # 0 /\ rangeMax(At(ids, pos - 1)) >= id

\* S2CellUnion.contains(id).
contains(ids, id) ==
    LET pos == insertionPoint(ids, id)
    IN  containsAtPos(ids, pos, id) \/ containsBeforePos(ids, pos, id)

\* An intersects that compares the cell at pos with id, as contains does,
\* rather than with the last leaf of id.
intersectsAtPosAsContains(ids, pos, id) ==
    pos < Len(ids) /\ rangeMin(At(ids, pos)) <= id

\* intersects: the test of the cell at pos.
intersectsAtPos(ids, pos, id) ==
    pos < Len(ids) /\ rangeMin(At(ids, pos)) <= rangeMax(id)

\* intersects: the test of the cell at pos - 1.
intersectsBeforePos(ids, pos, id) ==
    pos # 0 /\ rangeMax(At(ids, pos - 1)) >= rangeMin(id)

\* S2CellUnion.intersects(id).
intersects(ids, id) ==
    LET pos == insertionPoint(ids, id)
    IN  intersectsAtPos(ids, pos, id) \/ intersectsBeforePos(ids, pos, id)

\* S2CellUnion.contains(id) called on object o.
Contains(o, id) ==
    /\ ret' = contains(cellIds[o], id)
    /\ op' = "contains"
    /\ arg' = <<id>>
    /\ pre' = cellIds
    /\ UNCHANGED <<cellIds, out, threw>>

\* S2CellUnion.intersects(id) called on object o.
Intersects(o, id) ==
    /\ ret' = intersects(cellIds[o], id)
    /\ op' = "intersects"
    /\ arg' = <<id>>
    /\ pre' = cellIds
    /\ UNCHANGED <<cellIds, out, threw>>

\* A union x given a sorted array in which no cell contains another.
InitQuery ==
    /\ cellIds \in { [Fresh EXCEPT !["x"] = s] : s \in SortedAntichains(MaxUnion) }
    /\ op = "initRawCellIds"
    /\ arg = <<>>
    /\ ret = FALSE
    /\ out = <<>>
    /\ threw = FALSE
    /\ pre = cellIds

NextQuery ==
    \/ \E id \in ProbeIds : Contains("x", id)
    \/ \E id \in ProbeIds : Intersects("x", id)

SpecQuery == InitQuery /\ [][NextQuery]_vars

\* A getUnion that forgets to normalize the concatenation.
concatOnly(xs, ys) == xs \o ys

\* getUnion: cellIds of the receiver after the call.
getUnionCells(xs, ys) == normalizeCells(xs \o ys)

\* S2CellUnion.getUnion(a, b) called on object o (o is neither a nor b).
GetUnion(o, a, b) ==
    /\ cellIds' = [cellIds EXCEPT ![o] = getUnionCells(cellIds[a], cellIds[b])]
    /\ op' = "getUnion"
    /\ arg' = <<o, a, b>>
    /\ pre' = cellIds
    /\ UNCHANGED <<ret, out, threw>>

\* A getIntersectionUU that, of two cells with the same first leaf, keeps
\* the one with the larger id.
takeLarger(xi, yj) == xi > yj

\* getIntersectionUU: of two cells with the same rangeMin, whether x's is
\* the one pushed.
takeXAtEqualMin(xi, yj) == xi < yj

RECURSIVE intersectionLoop(_, _, _, _, _)
\* getIntersectionUU: the while loop, from cursors i and j with the cells
\* pushed so far.
intersectionLoop(x, y, i, j, acc) ==
    IF ~(i < Len(x) /\ j < Len(y)) THEN acc
    ELSE LET xi == At(x, i)
             yj == At(y, j)
             imin == rangeMin(xi)
             jmin == rangeMin(yj)
         IN  IF imin > jmin
             THEN IF xi <= rangeMax(yj)
                  THEN intersectionLoop(x, y, i + 1, j, Append(acc, xi))
                  ELSE LET j2 == indexedBinarySearch(y, imin, j + 1, Len(y) - 1)
                       IN  IF xi <= rangeMax(At(y, j2 - 1))
                           THEN intersectionLoop(x, y, i, j2 - 1, acc)
                           ELSE intersectionLoop(x, y, i, j2, acc)
             ELSE IF jmin > imin
             THEN IF yj <= rangeMax(xi)
                  THEN intersectionLoop(x, y, i, j + 1, Append(acc, yj))
                  ELSE LET i2 == indexedBinarySearch(x, jmin, i + 1, Len(x) - 1)
                       IN  IF yj <= rangeMax(At(x, i2 - 1))
                           THEN intersectionLoop(x, y, i2 - 1, j, acc)
                           ELSE intersectionLoop(x, y, i2, j, acc)
             ELSE IF takeXAtEqualMin(xi, yj)
                  THEN intersectionLoop(x, y, i + 1, j, Append(acc, xi))
                  ELSE intersectionLoop(x, y, i, j + 1, Append(acc, yj))

\* getIntersectionUU: cellIds of the receiver after the call.
getIntersectionUUCells(x, y) == intersectionLoop(x, y, 0, 0, <<>>)

\* S2CellUnion.getIntersectionUU(a, b) called on object o (o is neither a
\* nor b).
GetIntersectionUU(o, a, b) ==
    /\ cellIds' = [cellIds EXCEPT ![o] = getIntersectionUUCells(cellIds[a], cellIds[b])]
    /\ op' = "getIntersectionUU"
    /\ arg' = <<o, a, b>>
    /\ pre' = cellIds
    /\ UNCHANGED <<ret, out, threw>>

\* Two unions x and y, each given a sorted array in which no cell contains
\* another.
InitPair(n) ==
    /\ cellIds \in { [Fresh EXCEPT !["x"] = s, !["y"] = t] :
                       s \in SortedAntichains(n), t \in SortedAntichains(n) }
    /\ op = "initRawCellIds"
    /\ arg = <<>>
    /\ ret = FALSE
    /\ out = <<>>
    /\ threw = FALSE
    /\ pre = cellIds

\* r.getUnion(x, y), then s.getUnion(y, x), then t.getUnion(r, e) with e the
\* empty union.
NextUnion ==
    \/ op = "initRawCellIds" /\ GetUnion("r", "x", "y")
    \/ op = "getUnion" /\ arg[1] = "r" /\ GetUnion("s", "y", "x")
    \/ op = "getUnion" /\ arg[1] = "s" /\ GetUnion("t", "r", "e")

SpecUnion == InitPair(MaxUnionOperand) /\ [][NextUnion]_vars

\* r.getIntersectionUU(x, y).
NextIntersection == op = "initRawCellIds" /\ GetIntersectionUU("r", "x", "y")

SpecIntersection == InitPair(MaxOperand) /\ [][NextIntersection]_vars

Max(a, b) == IF a >= b THEN a ELSE b
Min(a, b) == IF a <= b THEN a ELSE b

\* A denormalize that rounds by the remainder of (new_level - min_level)
\* itself.
roundByRemainder(lvl, minLevel, levelMod) ==
    LET newLevel == Max(minLevel, lvl)
    IN  IF levelMod > 1
        THEN Min(MAX_LEVEL, newLevel + ((newLevel - minLevel) % levelMod))
        ELSE newLevel

\* denormalize: newLevel, the level the cells emitted for a cell of level
\* lvl have.
denormalizeLevel(lvl, minLevel, levelMod) ==
    LET newLevel == Max(minLevel, lvl)
    IN  IF levelMod > 1
        THEN Min(MAX_LEVEL,
                 newLevel + ((MAX_LEVEL - (newLevel - minLevel)) % levelMod))
        ELSE newLevel

RECURSIVE childWalk(_, _)
\* denormalize: the cells pushed by the for loop from childBeginL(newLevel)
\* to childEndL(newLevel).
childWalk(iid, end) ==
    IF iid = end THEN <<>> ELSE <<iid>> \o childWalk(next(iid), end)

\* denormalize: the cells pushed by the body of the loop, for one id.
denormalizeStep(id, minLevel, levelMod) ==
    LET newLevel == denormalizeLevel(level(id), minLevel, levelMod)
    IN  IF newLevel = level(id) THEN <<id>>
        ELSE childWalk(childBeginL(id, newLevel), childEndL(id, newLevel))

RECURSIVE denormalize(_, _, _)
\* S2CellUnion.denormalize(minLevel, levelMod): the array returned.
denormalize(ids, minLevel, levelMod) ==
    IF ids = <<>> THEN <<>>
    ELSE denormalizeStep(Head(ids), minLevel, levelMod)
             \o denormalize(Tail(ids), minLevel, levelMod)

\* S2CellUnion.denormalize(minLevel, levelMod) called on object o.  The model
\* leaves out the calls that descend more than MaxDescend levels below a
\* stored cell.
Denormalize(o, minLevel, levelMod) ==
    /\ \A c \in Range(cellIds[o]) :
          denormalizeLevel(level(c), minLevel, levelMod) - level(c) <= MaxDescend
    /\ out' = denormalize(cellIds[o], minLevel, levelMod)
    /\ op' = "denormalize"
    /\ arg' = <<minLevel, levelMod>>
    /\ pre' = cellIds
    /\ UNCHANGED <<cellIds, ret, threw>>

\* The cells unions given to denormalize are made of: the universe and the
\* cells of every level on the path.
DenormUniverse == Universe \cup { SpineCell(k) : k \in 0..MAX_LEVEL }

\* A union x given any raw array.
InitDenormalize ==
    /\ cellIds \in { [Fresh EXCEPT !["x"] = s] : s \in SeqsUpTo(DenormUniverse, MaxDenorm) }
    /\ op = "initRawCellIds"
    /\ arg = <<>>
    /\ ret = FALSE
    /\ out = <<>>
    /\ threw = FALSE
    /\ pre = cellIds

\* x.denormalize(minLevel, levelMod), once the array is in place.
NextDenormalize ==
    op = "initRawCellIds" /\ \E minLevel \in 0..MAX_LEVEL : \E levelMod \in 1..3 :
                                Denormalize("x", minLevel, levelMod)

SpecDenormalize == InitDenormalize /\ [][NextDenormalize]_vars

\* The number of leaf ids on all faces: leaf ids wrap around at this value.
CurveLength == NUM_FACES * Pow2(POS_BITS)

\* S2CellId.getAllNeighbors(level), for a cell whose level is at most lvl.
\* Of the neighbours of the cell at level lvl, the model returns the two
\* that are next to it along the curve: the cell that ends where the cell
\* begins and the cell that begins where the cell ends.
getAllNeighbors(id, lvl) ==
    << parentL((rangeMin(id) + CurveLength - 2) % CurveLength, lvl),
       parentL((rangeMax(id) + 2) % CurveLength, lvl) >>

RECURSIVE skipContained(_, _, _)
\* expand: skip over the cells before index i that id contains.
skipContained(ids, id, i) ==
    IF i > 0 /\ idContains(id, At(ids, i - 1)) THEN skipContained(ids, id, i - 1)
    ELSE i

\* An expand that compares the lowest bits the wrong way round: the cells
\* bigger than the cells of the level are the ones replaced.
isBiggerThanLevel(id, lvl) == lowestOnBit(id) > lowestOnBitForLevel(lvl)

\* expand: whether the cell is smaller than the cells of the level, and so
\* replaced by its ancestor at the level.
isSmallerThanLevel(id, lvl) == lowestOnBit(id) < lowestOnBitForLevel(lvl)

RECURSIVE expandLoop(_, _, _, _)
\* expand: the do-while loop from index i (at least 0) down to 0.
expandLoop(ids, i, lvl, output) ==
    LET stored == At(ids, i)
        replaced == isSmallerThanLevel(stored, lvl)
        id == IF replaced THEN parentL(stored, lvl) ELSE stored
        i2 == IF replaced THEN skipContained(ids, id, i) ELSE i
        output2 == Append(output, id) \o getAllNeighbors(id, lvl)
    IN  IF i2 - 1 >= 0 THEN expandLoop(ids, i2 - 1, lvl, output2) ELSE output2

\* expand: the output array handed to initSwap.
expandOutput(ids, lvl) == expandLoop(ids, Len(ids) - 1, lvl, <<>>)

\* S2CellUnion.expand(level) called on object o.  On an empty union the
\* first pass of the do-while loop reads cellId(-1), which is undefined, and
\* calling lowestOnBit on it throws a TypeError.
Expand(o, lvl) ==
    /\ IF Len(cellIds[o]) = 0
       THEN /\ threw' = TRUE
            /\ UNCHANGED <<cellIds, out>>
       ELSE /\ threw' = FALSE
            /\ out' = expandOutput(cellIds[o], lvl)
            /\ cellIds' = [cellIds EXCEPT ![o] = normalizeCells(expandOutput(cellIds[o], lvl))]
    /\ op' = "expand"
    /\ arg' = <<lvl>>
    /\ pre' = cellIds
    /\ UNCHANGED ret

\* x.expand(level), once the array is in place.
NextExpand ==
    op = "initRawCellIds" /\ \E lvl \in 0..MAX_LEVEL : Expand("x", lvl)

SpecExpand == InitQuery /\ [][NextExpand]_vars

---------------------------------------------------------------------------
(* Claims about normalize, checked under SpecNormalize.                    *)

\* The cells of the universe that have a parent, and those parents.
Parents == { parent(c) : c \in { u \in Universe : ~isFace(u) } }

\* The raw array given to r is the four children of P, in some order.
IsChildrenOf(s, P) == Len(s) = 4 /\ Range(s) = children(P)

\* C1: a union initialised with exactly the four children of a cell P that
\* is not a leaf, in any order, holds exactly <<P>> after normalize(), and
\* normalize() returns true.
C1_SiblingsCollapse ==
    op = "normalize" =>
        \A P \in Parents :
            IsChildrenOf(pre["r"], P) => cellIds["r"] = <<P>> /\ ret = TRUE

\* C2: after normalize() on any sequence of valid cell ids, the stored
\* sequence is sorted strictly ascending and no stored cell is contained by
\* another stored cell.
C2_SortedNoContainment ==
    op = "normalize" => IsSorted(cellIds["r"]) /\ NoContainment(cellIds["r"])

\* C2's case: normalize() has run on an input that was unsorted, held a
\* duplicate and held a cell together with one of its descendants, and
\* more than one cell is left.
C2_Witness ==
    /\ op = "normalize"
    /\ ~IsSorted(pre["r"])
    /\ \E i, j \in 1..Len(pre["r"]) : i < j /\ pre["r"][i] = pre["r"][j]
    /\ \E i, j \in 1..Len(pre["r"]) :
          pre["r"][i] # pre["r"][j] /\ idContains(pre["r"][i], pre["r"][j])
    /\ Len(cellIds["r"]) >= 2

\* C6: normalize() on a union that is already normalized leaves the stored
\* sequence unchanged and returns false.
C6_NormalizedNoOp ==
    (op = "normalize" /\ IsNormalized(pre["r"])) =>
        cellIds["r"] = pre["r"] /\ ret = FALSE

\* C6's case: normalize() has run on a normalized union of at least three
\* cells.
C6_Witness ==
    op = "normalize" /\ IsNormalized(pre["r"]) /\ Len(pre["r"]) >= 3

\* C7: when normalize() returns false, the stored sequence after the call
\* is identical to the sequence before the call and is normalized.
C7_FalseMeansUntouched ==
    (op = "normalize" /\ ret = FALSE) =>
        cellIds["r"] = pre["r"] /\ IsNormalized(cellIds["r"])

---------------------------------------------------------------------------
(* Claims about contains and intersects, checked under SpecQuery.          *)

\* C4: for a sorted union in which no cell contains another, and an id of
\* any level, contains(id) is true exactly when some stored cell contains
\* id.
C4_ContainsExact ==
    op = "contains" =>
        (ret <=> \E c \in Range(cellIds["x"]) : idContains(c, arg[1]))

\* C4's case: contains(id) has returned true for an id that is not a leaf,
\* that is not stored itself, on a union of at least two cells, the cell
\* that contains it being the one before the insertion point.
C4_Witness ==
    /\ op = "contains" /\ ret = TRUE
    /\ ~isLeaf(arg[1])
    /\ arg[1] \notin Range(cellIds["x"])
    /\ Len(cellIds["x"]) >= 2
    /\ ~containsAtPos(cellIds["x"], insertionPoint(cellIds["x"], arg[1]), arg[1])

\* C5: for a sorted union in which no cell contains another, and an id of
\* any level, intersects(id) is true exactly when the leaf range of some
\* stored cell overlaps the leaf range of id.
C5_IntersectsExact ==
    op = "intersects" =>
        (ret <=> \E c \in Range(cellIds["x"]) : idIntersects(c, arg[1]))

\* C5's case: intersects(id) has returned true for an id that no stored
\* cell contains (id contains a stored cell), on a union of at least two
\* cells.
C5_Witness ==
    /\ op = "intersects" /\ ret = TRUE
    /\ \A c \in Range(cellIds["x"]) : ~idContains(c, arg[1])
    /\ Len(cellIds["x"]) >= 2

---------------------------------------------------------------------------
(* Claims about getIntersectionUU and getUnion, checked under              *)
(* SpecIntersection and SpecUnion.                                         *)

\* C3: for unions x and y that are sorted with no cell containing another,
\* and every leaf id, the union r produced by r.getIntersectionUU(x, y)
\* contains id exactly when x contains id and y contains id.
C3_IntersectionExact ==
    op = "getIntersectionUU" =>
        \A id \in ProbeLeaves :
            contains(cellIds["r"], id)
                <=> (contains(cellIds["x"], id) /\ contains(cellIds["y"], id))

\* C3's case: getIntersectionUU has run on two unions of two cells each, a
\* cell of one containing a cell of the other and a cell of one being
\* disjoint from every cell of the other, and the result is not empty.
C3_Witness ==
    /\ op = "getIntersectionUU"
    /\ Len(cellIds["x"]) = 2 /\ Len(cellIds["y"]) = 2
    /\ cellIds["r"] # <<>>
    /\ \E c \in Range(cellIds["x"]) : \E d \in Range(cellIds["y"]) :
          c # d /\ idContains(d, c)
    /\ \E c \in Range(cellIds["x"]) : \A d \in Range(cellIds["y"]) :
          ~idIntersects(c, d)

\* C8: getUnion(x, y) and getUnion(y, x) produce the identical sequence,
\* getUnion of that result with the empty union produces it again, and x
\* and y are left unchanged by each call.
C8_UnionCommutes ==
    op = "getUnion" =>
        /\ cellIds["x"] = pre["x"] /\ cellIds["y"] = pre["y"]
        /\ arg[1] = "s" => cellIds["s"] = cellIds["r"]
        /\ arg[1] = "t" => cellIds["t"] = cellIds["r"] /\ cellIds["s"] = cellIds["r"]

\* C8's case: the three calls have been made on two different non-empty
\* unions, one holding a cell that a cell of the other contains.
C8_Witness ==
    /\ op = "getUnion" /\ arg[1] = "t"
    /\ cellIds["x"] # <<>> /\ cellIds["y"] # <<>>
    /\ cellIds["x"] # cellIds["y"]
    /\ \E c \in Range(cellIds["x"]) : \E d \in Range(cellIds["y"]) :
          c # d /\ idContains(d, c)
    /\ Len(cellIds["r"]) >= 2

---------------------------------------------------------------------------
(* Claims about denormalize, checked under SpecDenormalize.                *)

\* A level satisfies the constraints of denormalize(minLevel, levelMod).
LevelOk(lvl, minLevel, levelMod) ==
    lvl >= minLevel /\ ((lvl - minLevel) % levelMod = 0 \/ lvl = MAX_LEVEL)

\* The smallest level, not above the cell's, that satisfies the constraints.
SmallestLevelOk(c, minLevel, levelMod) ==
    CHOOSE l \in level(c)..MAX_LEVEL :
        /\ LevelOk(l, minLevel, levelMod)
        /\ \A k \in level(c)..(l - 1) : ~LevelOk(k, minLevel, levelMod)

RECURSIVE Ascending(_)
\* The members of a set of ids, in ascending order.
Ascending(S) ==
    IF S = {} THEN <<>>
    ELSE LET m == CHOOSE c \in S : \A d \in S : c <= d
         IN  <<m>> \o Ascending(S \ {m})

\* The descendants of c at level lvl: the ids of cells of level lvl (the odd
\* multiples of the level's lowest bit) that lie in c's leaf range.
DescendantsAt(c, lvl) ==
    LET lsb == lowestOnBitForLevel(lvl)
    IN  { m * lsb : m \in { k \in (rangeMin(c) \div lsb)..(rangeMax(c) \div lsb) :
                              k % 2 = 1 } }

\* What the claim says is emitted for a stored cell.
EmittedFor(c, minLevel, levelMod) ==
    IF LevelOk(level(c), minLevel, levelMod) THEN <<c>>
    ELSE Ascending(DescendantsAt(c, SmallestLevelOk(c, minLevel, levelMod)))

RECURSIVE EmittedForAll(_, _, _)
EmittedForAll(ids, minLevel, levelMod) ==
    IF ids = <<>> THEN <<>>
    ELSE EmittedFor(Head(ids), minLevel, levelMod)
             \o EmittedForAll(Tail(ids), minLevel, levelMod)

\* C9: every cell returned by denormalize(minLevel, levelMod) has a level
\* that is at least minLevel and differs from it by a multiple of levelMod
\* or is MAX_LEVEL; a stored cell that satisfies this is emitted unchanged
\* and any other is replaced by all its descendants at the smallest such
\* level, in ascending order.
C9_DenormalizeLevels ==
    op = "denormalize" =>
        /\ \A c \in Range(out) : LevelOk(level(c), arg[1], arg[2])
        /\ out = EmittedForAll(cellIds["x"], arg[1], arg[2])

\* C9's case: denormalize has emitted one stored cell unchanged and has
\* replaced another by its descendants at a level that differs from
\* minLevel by no multiple of levelMod (the level is MAX_LEVEL).
C9_Witness ==
    /\ op = "denormalize"
    /\ arg[2] > 1
    /\ \E c \in Range(cellIds["x"]) : LevelOk(level(c), arg[1], arg[2])
    /\ \E c \in Range(cellIds["x"]) :
          /\ ~LevelOk(level(c), arg[1], arg[2])
          /\ (SmallestLevelOk(c, arg[1], arg[2]) - arg[1]) % arg[2] # 0
    /\ Len(out) > Len(cellIds["x"])

---------------------------------------------------------------------------
(* Claims about expand, checked under SpecExpand.                          *)

\* C10: for every sorted union, of any size, in which no cell contains
\* another, and every level, expand(level) completes and every cell stored
\* before the call is contained by some cell stored after the call.
C10_ExpandContainsOriginal ==
    op = "expand" =>
        /\ ~threw
        /\ \A c \in Range(pre["x"]) : \E d \in Range(cellIds["x"]) : idContains(d, c)

\* C10 for the unions that hold at least one cell.
C10_NonEmptyExpandContainsOriginal ==
    (op = "expand" /\ pre["x"] # <<>>) =>
        /\ ~threw
        /\ \A c \in Range(pre["x"]) : \E d \in Range(cellIds["x"]) : idContains(d, c)


RECURSIVE Ancestors(_)
\* The cell and the cells that contain it, up to its face cell.
Ancestors(c) == IF isFace(c) THEN {c} ELSE {c} \cup Ancestors(parent(c))

\* The ancestor of c at level lvl; 0 (the id of no cell) when c has none,
\* that is when c is coarser than the level.
AncestorAt(c, lvl) ==
    IF \E a \in Ancestors(c) : level(a) = lvl
    THEN CHOOSE a \in Ancestors(c) : level(a) = lvl
    ELSE 0

RECURSIVE ScanFromEnd(_, _, _, _)
\* The array a scan of ids from entry i (counted from 1) toward the start
\* emits: an entry that is to be replaced gives its ancestor at the level,
\* and the entries just before it that this ancestor contains are skipped;
\* any other entry gives itself; the cell is followed by its neighbours at
\* the level.  The entries replaced are the ones coarser than the level
\* (replaceCoarser) or the ones finer than the level.
ScanFromEnd(ids, i, lvl, replaceCoarser) ==
    LET e == ids[i]
        replaced == IF replaceCoarser THEN level(e) < lvl ELSE level(e) > lvl
        a == IF replaced THEN AncestorAt(e, lvl) ELSE e
        first == IF replaced
                 THEN CHOOSE j \in 1..i :
                        /\ \A k \in j..(i - 1) : idContains(a, ids[k])
                        /\ j > 1 => ~idContains(a, ids[j - 1])
                 ELSE i
        emitted == <<a>> \o getAllNeighbors(a, lvl)
    IN  IF first = 1 THEN emitted
        ELSE emitted \o ScanFromEnd(ids, first - 1, lvl, replaceCoarser)

\* C11 as stated: expand(level) scans the entries from the end; every entry
\* coarser than the level is replaced by its ancestor at the level (the
\* preceding entries that ancestor contains being skipped), every other
\* entry is emitted as itself, and each emitted cell is followed by its
\* neighbours at the level.
C11_CoarserReplaced ==
    (op = "expand" /\ ~threw) =>
        out = ScanFromEnd(pre["x"], Len(pre["x"]), arg[1], TRUE)

\* C11 as amended: expand(level) scans the entries from the end; every entry
\* finer than the level (a smaller cell, of a greater level number) is
\* replaced by its ancestor at the level (the preceding entries that
\* ancestor contains being skipped), every other entry is emitted as itself,
\* and each emitted cell is followed by its neighbours at the level.  A
\* union with no entry has nothing to scan: the call throws and leaves the
\* union as it was.
C11_FinerReplaced ==
    op = "expand" =>
        IF pre["x"] = <<>>
        THEN threw /\ cellIds = pre
        ELSE /\ ~threw
             /\ out = ScanFromEnd(pre["x"], Len(pre["x"]), arg[1], FALSE)

\* C11's case: expand has replaced an entry finer than the level by its
\* ancestor, has skipped an entry before it that the ancestor contains,
\* and has emitted an entry coarser than the level as itself.
C11_Witness ==
    /\ op = "expand" /\ ~threw
    /\ \E i \in 2..Len(pre["x"]) :
          /\ level(pre["x"][i]) > arg[1]
          /\ idContains(AncestorAt(pre["x"][i], arg[1]), pre["x"][i - 1])
          /\ pre["x"][i] \notin Range(out)
          /\ pre["x"][i - 1] \notin Range(out)
    /\ \E e \in Range(pre["x"]) : level(e) < arg[1] /\ e \in Range(out)

=============================================================================
